---- MODULE Spec2Model ----
(***************************************************************************)
(* Model of midi.py: a decoder/encoder for Standard MIDI Files.            *)
(*                                                                         *)
(* Byte strings are sequences of integers 0..255.  Python indices are      *)
(* 0-based; the helpers Index/Slice translate to 1-based sequences.        *)
(* A Python call either returns a value or raises: a raised exception is   *)
(* the record [exc |-> type, msg |-> message]; a returned object is a      *)
(* record without the field exc (byte strings are wrapped as [ret |-> b]). *)
(***************************************************************************)
EXTENDS Integers, Sequences, FiniteSets, TLC

\* ------------------------------------------------------------------ bounds
MaxTail == 2        \* bytes following the status / type prefix of a codec input
MaxGroups == 3      \* 7-bit groups of a value given to the variable-length encoder
MaxEvents == 2      \* events in the track body of an input file
MaxMutations == 1   \* caller mutations between decode and export

\* --------------------------------------------------------- python helpers
Raise(type, msg) == [exc |-> type, msg |-> msg]
Raised(r) == "exc" \in DOMAIN r
Ret(b) == [ret |-> b]

Min(a, b) == IF a < b THEN a ELSE b

\* byte_list[i:j] (clamped, never raises)
Slice(byte_list, i, j) ==
  LET hi == Min(j, Len(byte_list))
  IN  IF i >= hi THEN <<>> ELSE SubSeq(byte_list, i + 1, hi)

\* byte_list[i:]
SliceFrom(byte_list, i) == Slice(byte_list, i, Len(byte_list))

\* byte_list[i] is defined only when InRange; the callers raise IndexError otherwise
InRange(byte_list, i) == i >= 0 /\ i < Len(byte_list)
Index(byte_list, i) == byte_list[i + 1]

RECURSIVE BitAnd(_, _)
BitAnd(a, b) ==
  IF a = 0 \/ b = 0 THEN 0
  ELSE ((a % 2) * (b % 2)) + (2 * BitAnd(a \div 2, b \div 2))

RECURSIVE BitOr(_, _)
BitOr(a, b) ==
  IF a = 0 THEN b
  ELSE IF b = 0 THEN a
  ELSE (IF (a % 2) = 1 \/ (b % 2) = 1 THEN 1 ELSE 0) + (2 * BitOr(a \div 2, b \div 2))

\* ------------------------------------------------------ fixed-width codec
\* struct.unpack('>H', byte_list[:4]): needs exactly 2 bytes
bytes_to_uint16(byte_list) ==
  LET b == Slice(byte_list, 0, 4)
  IN  IF Len(b) # 2 THEN Raise("struct.error", "unpack requires a buffer of 2 bytes")
      ELSE [ret |-> b[1] * 256 + b[2]]

uint16_to_bytes(value) ==
  IF value < 0 \/ value > 65535 THEN Raise("struct.error", "format requires 0 <= number <= 65535")
  ELSE Ret(<<value \div 256, value % 256>>)

\* struct.unpack('>I', b'\x00' + byte_list[:3]): needs at least 3 bytes
bytes_to_uint24(byte_list) ==
  LET b == <<0>> \o Slice(byte_list, 0, 3)
  IN  IF Len(b) # 4 THEN Raise("struct.error", "unpack requires a buffer of 4 bytes")
      ELSE [ret |-> b[2] * 65536 + b[3] * 256 + b[4]]

\* struct.pack('>I', value)[1:4]: the most significant byte is dropped
uint24_to_bytes(value) ==
  IF value < 0 THEN Raise("struct.error", "argument out of range")
  ELSE Ret(<<(value \div 65536) % 256, (value \div 256) % 256, value % 256>>)

bytes_to_uint32(byte_list) ==
  LET b == Slice(byte_list, 0, 4)
  IN  IF Len(b) # 4 THEN Raise("struct.error", "unpack requires a buffer of 4 bytes")
      ELSE [ret |-> b[1] * 16777216 + b[2] * 65536 + b[3] * 256 + b[4]]

uint32_to_bytes(value) ==
  IF value < 0 THEN Raise("struct.error", "argument out of range")
  ELSE Ret(<<(value \div 16777216) % 256, (value \div 65536) % 256,
             (value \div 256) % 256, value % 256>>)

\* ------------------------------------------------------------------ UTF-8
IsCont(b) == b >= 128 /\ b <= 191

\* number of bytes of the UTF-8 sequence starting at 1-based position p of b,
\* or 0 when the bytes there are not a valid (strict) UTF-8 sequence
Utf8SeqLen(b, p) ==
  LET n == Len(b)
      b0 == b[p]
      c(k) == p + k <= n /\ IsCont(b[p + k])
  IN  IF b0 < 128 THEN 1
      ELSE IF b0 >= 194 /\ b0 <= 223 THEN (IF c(1) THEN 2 ELSE 0)
      ELSE IF b0 >= 224 /\ b0 <= 239 THEN
        (IF c(1) /\ c(2)
            /\ (b0 = 224 => b[p + 1] >= 160)
            /\ (b0 = 237 => b[p + 1] <= 159) THEN 3 ELSE 0)
      ELSE IF b0 >= 240 /\ b0 <= 244 THEN
        (IF c(1) /\ c(2) /\ c(3)
            /\ (b0 = 240 => b[p + 1] >= 144)
            /\ (b0 = 244 => b[p + 1] <= 143) THEN 4 ELSE 0)
      ELSE 0

Utf8CodePoint(b, p, k) ==
  IF k = 1 THEN b[p]
  ELSE IF k = 2 THEN (b[p] - 192) * 64 + (b[p + 1] - 128)
  ELSE IF k = 3 THEN (b[p] - 224) * 4096 + (b[p + 1] - 128) * 64 + (b[p + 2] - 128)
  ELSE (b[p] - 240) * 262144 + (b[p + 1] - 128) * 4096 + (b[p + 2] - 128) * 64 + (b[p + 3] - 128)

RECURSIVE Utf8Decode(_, _, _)
Utf8Decode(b, p, acc) ==
  IF p > Len(b) THEN [ret |-> acc]
  ELSE LET k == Utf8SeqLen(b, p)
       IN  IF k = 0 THEN Raise("UnicodeDecodeError", "'utf-8' codec can't decode byte")
           ELSE Utf8Decode(b, p + k, Append(acc, Utf8CodePoint(b, p, k)))

\* byte_list.decode('utf-8'): a str is the sequence of its code points
bytes_to_str(byte_list) == Utf8Decode(byte_list, 1, <<>>)

Utf8Encode1(cp) ==
  IF cp < 128 THEN <<cp>>
  ELSE IF cp < 2048 THEN <<192 + (cp \div 64), 128 + (cp % 64)>>
  ELSE IF cp < 65536 THEN <<224 + (cp \div 4096), 128 + ((cp \div 64) % 64), 128 + (cp % 64)>>
  ELSE <<240 + (cp \div 262144), 128 + ((cp \div 4096) % 64),
         128 + ((cp \div 64) % 64), 128 + (cp % 64)>>

RECURSIVE Utf8Encode(_, _)
Utf8Encode(s, acc) ==
  IF s = <<>> THEN Ret(acc)
  ELSE IF Head(s) >= 55296 /\ Head(s) <= 57343
       THEN Raise("UnicodeEncodeError", "surrogates not allowed")
       ELSE Utf8Encode(Tail(s), acc \o Utf8Encode1(Head(s)))

\* value.encode('utf-8')
str_to_bytes(value) == Utf8Encode(value, <<>>)

\* -------------------------------------------------- variable-length codec
\* vlv_scan returning what it has accumulated when the buffer ends
RECURSIVE vlv_scan_to_end(_, _, _)
vlv_scan_to_end(byte_list, value, tmp_pos) ==
  IF ~InRange(byte_list, tmp_pos) THEN [value |-> value, length |-> tmp_pos]
  ELSE LET b == Index(byte_list, tmp_pos)
       IN  IF BitAnd(b, 128) # 0
           THEN vlv_scan_to_end(byte_list, BitOr(value, BitAnd(b, 127)) * 128, tmp_pos + 1)
           ELSE [value |-> BitOr(value, BitAnd(b, 127)), length |-> tmp_pos + 1]

\* the while loop of decode_variable_length_value; byte_list[tmp_pos] raises
\* IndexError when tmp_pos is not an index of byte_list
RECURSIVE vlv_scan(_, _, _)
vlv_scan(byte_list, value, tmp_pos) ==
  IF ~InRange(byte_list, tmp_pos) THEN Raise("IndexError", "index out of range")
  ELSE LET b == Index(byte_list, tmp_pos)
       IN  IF BitAnd(b, 128) # 0
           THEN vlv_scan(byte_list, BitOr(value, BitAnd(b, 127)) * 128, tmp_pos + 1)
           ELSE [value |-> BitOr(value, BitAnd(b, 127)), length |-> tmp_pos + 1]

decode_variable_length_value(byte_list) == vlv_scan(byte_list, 0, 0)

\* the while loop of encode_variable_length_value: it stops at the first
\* 7-bit group that is zero
RECURSIVE vlv_prepend(_, _)
vlv_prepend(value, bytes_repr) ==
  IF BitAnd(value, 127) # 0
  THEN vlv_prepend(value \div 128, <<BitOr(BitAnd(value, 127), 128)>> \o bytes_repr)
  ELSE bytes_repr

encode_variable_length_value(value) ==
  vlv_prepend(value \div 128, <<BitAnd(value, 127)>>)

\* ------------------------------------------------------------ event types
MidiEventType == {128, 144, 160, 176, 192, 208, 224}
SystemEventType == {240, 242, 243, 246, 247, 248, 250, 251, 252, 254}
MetaEventType == {0, 1, 2, 3, 4, 5, 6, 7, 32, 47, 81, 84, 88, 89, 127}
note_off == 128
note_on == 144
note_pressure == 160
control_change == 176
program_change == 192
channel_pressure == 208
pitch_change == 224
exclusive == 240
common_song_position == 242
common_song_select == 243
common == 247
meta_prefix == 255

GetAttr(obj, name) ==
  IF name \in DOMAIN obj THEN Ret(obj[name])
  ELSE Raise("AttributeError", "object has no attribute " \o name)

\* ------------------------------------------------------------- MidiEvent
\* names of the two (or one) data attributes of each channel-voice type
MidiEventAttrs(event_type) ==
  IF event_type \in {note_off, note_on} THEN <<"note", "velocity">>
  ELSE IF event_type = note_pressure THEN <<"note", "pressure">>
  ELSE IF event_type = control_change THEN <<"control_number", "new_value">>
  ELSE IF event_type = program_change THEN <<"program_number">>
  ELSE IF event_type = channel_pressure THEN <<"channel_pressure">>
  ELSE <<"bottom", "next_value">>

MidiEvent(byte_list) ==
  IF ~InRange(byte_list, 0) THEN Raise("IndexError", "index out of range")
  ELSE LET event_type == BitAnd(Index(byte_list, 0), 240)
           channel_number == BitAnd(Index(byte_list, 0), 15)
       IN  IF event_type \notin MidiEventType
           THEN Raise("MidiException", "No such midi event type")
           ELSE LET attrs == MidiEventAttrs(event_type)
                    n == Len(attrs)
                IN  IF ~InRange(byte_list, n) THEN Raise("IndexError", "index out of range")
                    ELSE [a \in {attrs[i] : i \in 1..n} |->
                            Index(byte_list, CHOOSE i \in 1..n : attrs[i] = a)]
                         @@ [cls |-> "MidiEvent", event_type |-> event_type,
                             channel_number |-> channel_number, length |-> n + 1]

\* MidiEvent_to_bytes with the status byte built from the type alone
MidiEvent_to_bytes_type_only(self) ==
  LET attrs == MidiEventAttrs(self.event_type)
  IN  Ret(<<self.event_type>>
          \o [i \in 1..Len(attrs) |-> self[attrs[i]]])

MidiEvent_to_bytes(self) ==
  LET attrs == MidiEventAttrs(self.event_type)
  IN  Ret(<<BitOr(self.event_type, self.channel_number)>>
          \o [i \in 1..Len(attrs) |-> self[attrs[i]]])

\* ----------------------------------------------------------- SystemEvent
\* the terminator scan of Exclusive / EndOfExclusive: returns self.length
RECURSIVE sysex_scan(_, _, _)
sysex_scan(byte_list, tmp_pos, length) ==
  IF ~InRange(byte_list, tmp_pos) THEN Raise("IndexError", "index out of range")
  ELSE IF Index(byte_list, tmp_pos) # common
       THEN sysex_scan(byte_list, tmp_pos + 1, length + 1)
       ELSE [ret |-> length]

SystemEventLength(event_type) ==
  IF event_type = common_song_position THEN 3
  ELSE IF event_type = common_song_select THEN 2
  ELSE 1

SystemEvent(byte_list) ==
  IF ~InRange(byte_list, 0) THEN Raise("IndexError", "index out of range")
  ELSE LET event_type == Index(byte_list, 0)
       IN  IF event_type \notin SystemEventType
           THEN Raise("MidiException", "No such system event type")
           ELSE IF event_type \in {exclusive, common}
           THEN LET l == sysex_scan(byte_list, 1, 2)
                IN  IF Raised(l) THEN l
                    ELSE [cls |-> "SystemEvent", event_type |-> event_type,
                          length |-> l.ret,
                          payload |-> Slice(byte_list, 1, l.ret - 1)]
           ELSE [cls |-> "SystemEvent", event_type |-> event_type,
                 length |-> SystemEventLength(event_type)]

SystemEvent_to_bytes(self) ==
  IF self.event_type \in {exclusive, common}
  THEN Ret(<<self.event_type>> \o self.payload \o <<common>>)
  ELSE IF self.event_type = common_song_position THEN Ret(<<self.event_type, 0, 0>>)
  ELSE IF self.event_type = common_song_select THEN Ret(<<self.event_type, 0>>)
  ELSE Ret(<<self.event_type>>)

\* ------------------------------------------------------------- MetaEvent
MetaTextTypes == {1, 2, 3, 4, 5, 6, 7}

\* attribute that MetaEvent.__init__ stores the decoded payload in
MetaAttr(event_type) ==
  CASE event_type = 0 -> "sequence_number"
    [] event_type = 1 -> "text"
    [] event_type = 2 -> "copyright_notice"
    [] event_type = 3 -> "text_sequence_or_track_name"
    [] event_type = 4 -> "instrument_name"
    [] event_type = 5 -> "lyric"
    [] event_type = 6 -> "marker"
    [] event_type = 7 -> "cue_point"
    [] event_type = 32 -> "channel_prefix"
    [] event_type = 81 -> "tempo"
    [] event_type = 84 -> "smpte_offset"
    [] event_type = 88 -> "time_signature"
    [] event_type = 89 -> "key_signature"
    [] event_type = 127 -> "sequencer_specific_payload"
    [] OTHER -> "none"

\* attribute that MetaEvent.to_bytes reads the payload from
MetaAttrRead(event_type) ==
  IF event_type = 2 THEN "copyright_noticed" ELSE MetaAttr(event_type)

\* the decoded payload of a meta event, by type
MetaPayloadValue(event_type, payload) ==
  IF event_type = 0 THEN bytes_to_uint16(payload)
  ELSE IF event_type \in MetaTextTypes THEN bytes_to_str(payload)
  ELSE IF event_type = 32
       THEN (IF InRange(payload, 0) THEN Ret(Index(payload, 0))
             ELSE Raise("IndexError", "index out of range"))
  ELSE IF event_type = 81 THEN bytes_to_uint24(payload)
  ELSE Ret(payload)

\* the object MetaEvent.__init__ leaves once the payload is decoded to val
MetaEventObject(event_type, v, val) ==
  IF Raised(val) THEN val
  ELSE IF event_type = 47
  THEN [cls |-> "MetaEvent", event_type |-> event_type,
        payload_length |-> v.value, length |-> v.length + 2 + v.value]
  ELSE (MetaAttr(event_type) :> val.ret)
       @@ [cls |-> "MetaEvent", event_type |-> event_type,
           payload_length |-> v.value, length |-> v.length + 2 + v.value]

\* MetaEvent.__init__ after the payload length v is decoded: the payload is
\* the slice byte_list[tmp_pos:tmp_pos + payload_length]
MetaEventPayload(byte_list, event_type, v) ==
  IF Raised(v) THEN v
  ELSE MetaEventObject(event_type, v,
         MetaPayloadValue(event_type,
           Slice(byte_list, 2 + v.length, 2 + v.length + v.value)))

\* the body of the try block of MetaEvent.__init__
MetaEventTry(byte_list) ==
  IF ~InRange(byte_list, 1) THEN Raise("IndexError", "index out of range")
  ELSE IF Index(byte_list, 1) \notin MetaEventType
  THEN Raise("ValueError", "is not a valid MetaEventType")
  ELSE MetaEventPayload(byte_list, Index(byte_list, 1),
                        decode_variable_length_value(SliceFrom(byte_list, 2)))

\* the bare except of MetaEvent.__init__
MetaEventExcept(r) ==
  IF Raised(r) THEN Raise("MidiException", "No such meta event") ELSE r

MetaEvent(byte_list) ==
  IF ~InRange(byte_list, 0) THEN Raise("IndexError", "index out of range")
  ELSE IF Index(byte_list, 0) # meta_prefix THEN Raise("MidiException", "Not a meta event")
  ELSE MetaEventExcept(MetaEventTry(byte_list))

\* the bytes MetaEvent.to_bytes appends for the attribute lookup a, by type
MetaAttrBytes(t, a) ==
  IF t = 47 THEN Ret(<<>>)
  ELSE IF Raised(a) THEN a
  ELSE IF t = 0 THEN uint16_to_bytes(a.ret)
  ELSE IF t \in MetaTextTypes THEN str_to_bytes(a.ret)
  ELSE IF t = 32 THEN Ret(<<a.ret>>)
  ELSE IF t = 81 THEN uint24_to_bytes(a.ret)
  ELSE Ret(a.ret)

MetaPayloadBytes(self) ==
  MetaAttrBytes(self.event_type, GetAttr(self, MetaAttrRead(self.event_type)))

\* bytes_repr + body, or the exception the body raised
Extend(bytes_repr, body) ==
  IF Raised(body) THEN body ELSE Ret(bytes_repr \o body.ret)

MetaEvent_to_bytes(self) ==
  Extend(<<meta_prefix, self.event_type>>
           \o encode_variable_length_value(self.payload_length),
         MetaPayloadBytes(self))

\* -------------------------------------------------------------- MTrkEvent
\* EventFamily with the channel nibble left in the status byte
EventFamilyUnmasked(event_code) ==
  IF event_code \in MidiEventType THEN "MidiEvent"
  ELSE IF event_code \in SystemEventType THEN "SystemEvent"
  ELSE IF event_code = meta_prefix THEN "MetaEvent"
  ELSE "none"

\* the class MTrkEvent.__init__ dispatches the event code to
EventFamily(event_code) ==
  IF BitAnd(event_code, 240) \in MidiEventType THEN "MidiEvent"
  ELSE IF event_code \in SystemEventType THEN "SystemEvent"
  ELSE IF event_code = meta_prefix THEN "MetaEvent"
  ELSE "none"

\* the constructor of the class of family, applied to byte_list[tmp_pos:]
EventOfFamily(family, rest) ==
  IF family = "MidiEvent" THEN MidiEvent(rest)
  ELSE IF family = "SystemEvent" THEN SystemEvent(rest)
  ELSE IF family = "MetaEvent" THEN MetaEvent(rest)
  ELSE Raise("MidiException", "No such event")

\* self.length += self.event.length
MTrkEventObject(d, event) ==
  IF Raised(event) THEN event
  ELSE [delta_time |-> d.value, length |-> d.length + event.length, event |-> event]

\* MTrkEvent.__init__ after the delta time d is decoded
MTrkEventBody(byte_list, d) ==
  IF Raised(d) THEN d
  ELSE IF ~InRange(byte_list, d.length) THEN Raise("IndexError", "index out of range")
  ELSE MTrkEventObject(d, EventOfFamily(EventFamily(Index(byte_list, d.length)),
                                        SliceFrom(byte_list, d.length)))

MTrkEvent(byte_list) == MTrkEventBody(byte_list, decode_variable_length_value(byte_list))

Event_to_bytes(event) ==
  IF event.cls = "MidiEvent" THEN MidiEvent_to_bytes(event)
  ELSE IF event.cls = "SystemEvent" THEN SystemEvent_to_bytes(event)
  ELSE MetaEvent_to_bytes(event)

MTrkEvent_to_bytes(self) ==
  Extend(encode_variable_length_value(self.delta_time), Event_to_bytes(self.event))

\* ------------------------------------------------------------------ Chunk
\* ChunkType: the enum member's value as the code points of its str
ChunkTypeValue(chunk_type) ==
  IF chunk_type = "m_thd" THEN <<77, 84, 104, 100>> ELSE <<77, 84, 114, 107>>

\* the while loop of Chunk.__init__ over the events of a track (mtrk_loop),
\* and the rest of one iteration once the event is constructed (mtrk_append)
RECURSIVE mtrk_loop(_, _, _, _)
RECURSIVE mtrk_append(_, _, _, _, _)
mtrk_append(byte_list, length, tmp_pos, mtrk_events, new_mtrk_event) ==
  IF Raised(new_mtrk_event) THEN new_mtrk_event
  ELSE mtrk_loop(byte_list, length, tmp_pos + new_mtrk_event.length,
                 Append(mtrk_events, new_mtrk_event))

mtrk_loop(byte_list, length, tmp_pos, mtrk_events) ==
  IF tmp_pos < 8 + length
  THEN mtrk_append(byte_list, length, tmp_pos, mtrk_events,
                   MTrkEvent(SliceFrom(byte_list, tmp_pos)))
  ELSE Ret(mtrk_events)

\* the header chunk object, from its three decoded fields
HeaderChunkObject(length, file_format, tracks_count, division) ==
  IF Raised(file_format) THEN file_format
  ELSE IF Raised(tracks_count) THEN tracks_count
  ELSE IF Raised(division) THEN division
  ELSE [chunk_type |-> "m_thd", length |-> length,
        file_format |-> file_format.ret, tracks_count |-> tracks_count.ret,
        division |-> division.ret]

\* the track chunk object, from the result of its event loop
TrackChunkObject(length, events) ==
  IF Raised(events) THEN events
  ELSE [chunk_type |-> "m_trk", length |-> length, mtrk_events |-> events.ret]

\* Chunk.__init__ after the tag and the length are read
ChunkBody(byte_list, tag, length) ==
  IF Raised(tag) THEN tag
  ELSE IF tag.ret \notin {ChunkTypeValue("m_thd"), ChunkTypeValue("m_trk")}
  THEN Raise("ValueError", "is not a valid ChunkType")
  ELSE IF Raised(length) THEN length
  ELSE IF tag.ret = ChunkTypeValue("m_thd")
  THEN IF length.ret = 6
       THEN HeaderChunkObject(length.ret,
                              bytes_to_uint16(Slice(byte_list, 8, 10)),
                              bytes_to_uint16(Slice(byte_list, 10, 12)),
                              bytes_to_uint16(Slice(byte_list, 12, 14)))
       ELSE Raise("MidiException", "Invalid MThd chunk")
  ELSE TrackChunkObject(length.ret, mtrk_loop(byte_list, length.ret, 8, <<>>))

Chunk(byte_list) ==
  ChunkBody(byte_list, bytes_to_str(Slice(byte_list, 0, 4)),
            bytes_to_uint32(Slice(byte_list, 4, 8)))

\* the for loop of Chunk.to_bytes over the events of a track (events_to_bytes),
\* and bytes_repr += e for the bytes e of one event
RECURSIVE events_to_bytes(_, _)
RECURSIVE events_extend(_, _, _)
events_extend(mtrk_events, bytes_repr, e) ==
  IF Raised(e) THEN e ELSE events_to_bytes(Tail(mtrk_events), bytes_repr \o e.ret)

events_to_bytes(mtrk_events, bytes_repr) ==
  IF mtrk_events = <<>> THEN Ret(bytes_repr)
  ELSE events_extend(mtrk_events, bytes_repr, MTrkEvent_to_bytes(Head(mtrk_events)))

\* the header chunk's bytes, from the bytes of its fields
HeaderChunkBytes(head, file_format, tracks_count, division) ==
  IF Raised(file_format) THEN file_format
  ELSE IF Raised(tracks_count) THEN tracks_count
  ELSE IF Raised(division) THEN division
  ELSE Ret(head \o file_format.ret \o tracks_count.ret \o division.ret)

\* Chunk.to_bytes after the tag and the stored length are encoded
ChunkBytes(self, tag, length) ==
  IF Raised(length) THEN length
  ELSE IF self.chunk_type = "m_thd"
  THEN HeaderChunkBytes(tag.ret \o length.ret,
                        uint16_to_bytes(self.file_format),
                        uint16_to_bytes(self.tracks_count),
                        uint16_to_bytes(self.division))
  ELSE events_to_bytes(self.mtrk_events, tag.ret \o length.ret)

Chunk_to_bytes(self) ==
  ChunkBytes(self, str_to_bytes(ChunkTypeValue(self.chunk_type)),
             uint32_to_bytes(self.length))

\* the for loop of MidiFile.export: the bytes written before the first
\* to_bytes that raises, and the exception it raised (or None)
None == [none |-> TRUE]

RECURSIVE export_loop(_, _)
RECURSIVE export_write(_, _, _)
export_write(chunk_list, out, b) ==
  IF Raised(b) THEN [written |-> out, raised |-> b]
  ELSE export_loop(Tail(chunk_list), out \o b.ret)

export_loop(chunk_list, out) ==
  IF chunk_list = <<>> THEN [written |-> out, raised |-> None]
  ELSE export_write(chunk_list, out, Chunk_to_bytes(Head(chunk_list)))

\* ================================================================ state
VARIABLES
  readable,    \* whether open(path, 'rb') and read() succeed
  midi_data,   \* the bytes read from the file
  file_pos,    \* MidiFile.__init__: position of the next chunk
  chunks,      \* MidiFile.chunks
  pc,          \* "open", "loop", "decoded", "exported", "raised", or "idle"
  raised,      \* the exception a call let escape to its caller, or None
  context,     \* the exception the except clause of MidiFile.__init__ caught
  mutations,   \* number of caller mutations applied to the decoded objects
  written,     \* the bytes export wrote to the output file
  call,        \* codec runs: the function applied to the input
  byte_list,   \* codec runs: the input buffer
  value,       \* codec runs: the integer given to the variable-length encoder
  result,      \* codec runs: what the call returned or raised
  encoded,     \* codec runs: to_bytes / encode of the input or of the result
  cpc          \* codec runs: "input", "called", "encoded", or "idle"

vars == <<readable, midi_data, file_pos, chunks, pc, raised, context, mutations,
          written, call, byte_list, value, result, encoded, cpc>>
fileVars == <<readable, midi_data, file_pos, chunks, pc, raised, context,
              mutations, written>>
codecVars == <<call, byte_list, value, result, encoded, cpc>>

\* ---------------------------------------------------------- input files
RECURSIVE Flatten(_)
Flatten(ss) == IF ss = <<>> THEN <<>> ELSE Head(ss) \o Flatten(Tail(ss))

SeqsUpTo(S, n) == UNION {[1..k -> S] : k \in 0..n}

\* encoded track events the input files are built from, well-formed and not
EventCatalog ==
  { <<0, 144, 60, 64>>,            \* NoteOn
    <<0, 255, 47, 0>>,             \* meta end-of-track
    <<0, 255, 1, 2, 195, 169>>,    \* meta text, one 2-byte UTF-8 character
    <<0, 255, 2, 1, 65>>,          \* meta copyright notice
    <<0, 243, 5>>,                 \* SongSelect
    <<0, 240, 1, 247>>,            \* system exclusive with terminator
    <<129, 0, 248>>,               \* delta-time 128, TimingClock
    <<128, 0, 248>>,               \* delta-time 0 in two bytes, TimingClock
    <<129, 128, 0, 248>>,          \* delta-time 16384, TimingClock
    <<0, 241>>,                    \* undefined status byte
    <<0, 255, 1, 3, 65>> }         \* meta text declaring 3 bytes, 1 present

TrackBodies == {Flatten(es) : es \in SeqsUpTo(EventCatalog, MaxEvents)}

\* declared length of a track chunk minus the length of its body
LengthSkew == {-1, 0, 1}

TrackChunk(body, length) == ChunkTypeValue("m_trk") \o <<0, 0, 0, length>> \o body

TrackChunks ==
  UNION {{TrackChunk(body, Len(body) + d) : d \in {k \in LengthSkew : Len(body) + k >= 0}} :
           body \in TrackBodies}

HeaderChunk == ChunkTypeValue("m_thd") \o <<0, 0, 0, 6, 0, 1, 0, 1, 0, 96>>
EndOfTrackChunk == ChunkTypeValue("m_trk") \o <<0, 0, 0, 4, 0, 255, 47, 0>>

BadFiles ==
  { ChunkTypeValue("m_thd") \o <<0, 0, 0, 5, 0, 1, 0, 1, 0>>,   \* MThd length 5
    ChunkTypeValue("m_thd") \o <<0, 0, 0, 6, 0, 1, 0, 1, 0>>,   \* MThd cut short
    <<77, 84, 114, 120, 0, 0, 0, 0>>,                           \* tag "MTrx"
    <<255, 84, 114, 107, 0, 0, 0, 0>>,                          \* tag not UTF-8
    <<77, 84, 114, 107, 0, 0>> }                                \* header cut short

InputFiles ==
  {h \o t \o e : h \in {<<>>, HeaderChunk}, t \in TrackChunks,
                 e \in {<<>>, EndOfTrackChunk}}
  \cup {<<>>, HeaderChunk} \cup BadFiles

\* ------------------------------------------------- MidiFile: the program
IoError == Raise("OSError", "No such file or directory")
CouldNotOpen == Raise("MidiException", "Could not open midi file")

Init ==
  /\ readable \in BOOLEAN
  /\ midi_data \in (IF readable THEN InputFiles ELSE {<<>>})
  /\ file_pos = 0
  /\ chunks = <<>>
  /\ pc = "open"
  /\ raised = None
  /\ context = None
  /\ mutations = 0
  /\ written = <<>>
  /\ call = "none" /\ byte_list = <<>> /\ value = 0
  /\ result = None /\ encoded = None /\ cpc = "idle"

\* open(path, 'rb') and read(): an OSError is caught by the bare except
Open ==
  /\ pc = "open"
  /\ IF readable
     THEN pc' = "loop" /\ UNCHANGED <<raised, context>>
     ELSE pc' = "raised" /\ context' = IoError /\ raised' = CouldNotOpen
  /\ UNCHANGED <<readable, midi_data, file_pos, chunks, mutations, written>>
  /\ UNCHANGED codecVars

\* what the except clause of MidiFile.__init__ raises for a caught exception
Reraise(caught) == CouldNotOpen

\* AppendChunk advancing by the chunk's body only, not by its 8-byte header
AppendChunkBodyOnly(new_chunk) ==
  IF Raised(new_chunk)
  THEN /\ pc' = "raised"
       /\ context' = new_chunk
       /\ raised' = Reraise(new_chunk)
       /\ UNCHANGED <<chunks, file_pos>>
  ELSE /\ chunks' = Append(chunks, new_chunk)
       /\ file_pos' = file_pos + new_chunk.length
       /\ UNCHANGED <<pc, context, raised>>

\* one iteration of the while loop of MidiFile.__init__, for the result
\* new_chunk of Chunk(midi_data[file_pos:])
AppendChunk(new_chunk) ==
  IF Raised(new_chunk)
  THEN /\ pc' = "raised"
       /\ context' = new_chunk
       /\ raised' = Reraise(new_chunk)
       /\ UNCHANGED <<chunks, file_pos>>
  ELSE /\ chunks' = Append(chunks, new_chunk)
       /\ file_pos' = file_pos + 8 + new_chunk.length
       /\ UNCHANGED <<pc, context, raised>>

DecodeChunk ==
  /\ pc = "loop"
  /\ file_pos < Len(midi_data)
  /\ AppendChunk(Chunk(SliceFrom(midi_data, file_pos)))
  /\ UNCHANGED <<readable, midi_data, mutations, written>>
  /\ UNCHANGED codecVars

\* the while condition fails: the constructor returns
DecodeDone ==
  /\ pc = "loop"
  /\ ~(file_pos < Len(midi_data))
  /\ pc' = "decoded"
  /\ UNCHANGED <<readable, midi_data, file_pos, chunks, raised, context, mutations, written>>
  /\ UNCHANGED codecVars

\* delta times a caller assigns
DeltaTimes == {0, 128}

TrackIndexes == {i \in DOMAIN chunks : chunks[i].chunk_type = "m_trk"}

\* the caller assigns mtrk_event.delta_time of an event of a decoded track
SetDeltaTime ==
  /\ pc = "decoded"
  /\ mutations < MaxMutations
  /\ \E i \in TrackIndexes : \E j \in DOMAIN chunks[i].mtrk_events : \E d \in DeltaTimes :
       /\ chunks[i].mtrk_events[j].delta_time # d
       /\ chunks' = [chunks EXCEPT ![i].mtrk_events[j].delta_time = d]
  /\ mutations' = mutations + 1
  /\ UNCHANGED <<readable, midi_data, file_pos, pc, raised, context, written>>
  /\ UNCHANGED codecVars

\* the caller removes the last event of a decoded track
RemoveEvent ==
  /\ pc = "decoded"
  /\ mutations < MaxMutations
  /\ \E i \in TrackIndexes :
       /\ chunks[i].mtrk_events # <<>>
       /\ chunks' = [chunks EXCEPT ![i].mtrk_events =
                       SubSeq(@, 1, Len(@) - 1)]
  /\ mutations' = mutations + 1
  /\ UNCHANGED <<readable, midi_data, file_pos, pc, raised, context, written>>
  /\ UNCHANGED codecVars

\* MidiFile.export: an exception of a to_bytes escapes to the caller
Exported(r) == written' = r.written /\ raised' = r.raised

Export ==
  /\ pc = "decoded"
  /\ Exported(export_loop(chunks, <<>>))
  /\ pc' = "exported"
  /\ UNCHANGED <<readable, midi_data, file_pos, chunks, context, mutations>>
  /\ UNCHANGED codecVars

Next == Open \/ DecodeChunk \/ DecodeDone \/ SetDeltaTime \/ RemoveEvent \/ Export

Spec == Init /\ [][Next]_vars

\* the condition of the while loop of MidiFile.__init__
ChunkLoopRuns == pc = "loop" /\ file_pos < Len(midi_data)

\* MidiFile.__init__ is one synchronous call: once entered, its steps are
\* taken until it returns or raises.  What the caller does with the decoded
\* file (mutation, export) is not forced.  The last conjunct is the weak
\* fairness of DecodeChunk written out, with ChunkLoopRuns for
\* ENABLED <<DecodeChunk>>_vars: while the loop condition holds an iteration
\* is always possible, and it changes pc or chunks.
SpecFair ==
  /\ Spec
  /\ WF_vars(Open)
  /\ WF_vars(DecodeDone)
  /\ ([]<>~ChunkLoopRuns \/ []<><<DecodeChunk>>_vars)

\* ------------------------------------------------- codec runs: the inputs
TailBytes == {0, 2, 65, 129, 195, 247}
MetaTailBytes == {0, 65, 129, 195}
\* the bytes at the place of a meta event's payload length
MetaLengths == {<<>>, <<0>>, <<1>>, <<2>>, <<3>>, <<129>>, <<129, 0>>, <<128, 2>>}
VlvBytes == {0, 1, 127, 128, 129, 255}
GroupValues == {0, 1, 127}

RECURSIVE FromGroups(_)
FromGroups(gs) == IF gs = <<>> THEN 0 ELSE Head(gs) + (128 * FromGroups(Tail(gs)))

\* integers given to encode_variable_length_value: every combination of
\* MaxGroups 7-bit groups over GroupValues, least significant first
EncodeValues == {FromGroups(gs) : gs \in [1..MaxGroups -> GroupValues]}

MTrkEventInputs ==
  {<<0, s>> \o t : s \in 0..255, t \in SeqsUpTo(TailBytes, MaxTail)}
  \cup {<<>>, <<0>>, <<129>>, <<129, 0, 248>>, <<129, 0>>}
SystemEventInputs ==
  {<<s>> \o t : s \in SystemEventType \cup {144}, t \in SeqsUpTo(TailBytes, MaxTail + 1)}
  \cup {<<>>}
MetaEventInputs ==
  {<<255, m>> \o l \o t : m \in MetaEventType \cup {9}, l \in MetaLengths,
                           t \in SeqsUpTo(MetaTailBytes, MaxTail + 1)}
  \cup {<<>>, <<255>>, <<144, 1, 0>>}
VlvInputs == SeqsUpTo(VlvBytes, MaxTail + 1)

\* buffers a MidiEvent is constructed on: every status byte of a channel
\* voice message and one on each side of the range, with zero to two data
\* bytes
StatusBytes == 127..240
DataBytes == {0, 1, 64, 127, 128, 255}
MidiEventInputs ==
  {<<s>> \o t : s \in StatusBytes, t \in SeqsUpTo(DataBytes, 2)} \cup {<<>>}

CodecInit ==
  /\ readable = FALSE /\ midi_data = <<>> /\ file_pos = 0 /\ chunks = <<>>
  /\ pc = "idle" /\ raised = None /\ context = None /\ mutations = 0
  /\ written = <<>>
  /\ cpc = "input"
  /\ result = None
  /\ encoded = None
  /\ \/ call = "MTrkEvent" /\ byte_list \in MTrkEventInputs /\ value = 0
     \/ call = "SystemEvent" /\ byte_list \in SystemEventInputs /\ value = 0
     \/ call = "MetaEvent" /\ byte_list \in MetaEventInputs /\ value = 0
     \/ call = "MidiEvent" /\ byte_list \in MidiEventInputs /\ value = 0
     \/ call = "decode_variable_length_value" /\ byte_list \in VlvInputs /\ value = 0
     \/ call = "encode_variable_length_value" /\ byte_list = <<>> /\ value \in EncodeValues

Called(r) ==
  /\ cpc = "input"
  /\ result' = r
  /\ cpc' = "called"
  /\ UNCHANGED <<call, byte_list, value, encoded>>
  /\ UNCHANGED fileVars

CallMTrkEvent == call = "MTrkEvent" /\ Called(MTrkEvent(byte_list))
CallSystemEvent == call = "SystemEvent" /\ Called(SystemEvent(byte_list))
CallMetaEvent == call = "MetaEvent" /\ Called(MetaEvent(byte_list))
CallMidiEvent == call = "MidiEvent" /\ Called(MidiEvent(byte_list))
CallDecodeVlv ==
  call = "decode_variable_length_value" /\ Called(decode_variable_length_value(byte_list))

\* to_bytes of the object a decoder returned
CallToBytes ==
  /\ cpc = "called"
  /\ ~Raised(result)
  /\ call \in {"MTrkEvent", "SystemEvent", "MetaEvent", "MidiEvent"}
  /\ encoded' = (IF call = "MTrkEvent" THEN MTrkEvent_to_bytes(result)
                 ELSE Event_to_bytes(result))
  /\ cpc' = "encoded"
  /\ UNCHANGED <<call, byte_list, value, result>>
  /\ UNCHANGED fileVars

CallEncodeVlv ==
  /\ cpc = "input"
  /\ call = "encode_variable_length_value"
  /\ encoded' = Ret(encode_variable_length_value(value))
  /\ cpc' = "encoded"
  /\ UNCHANGED <<call, byte_list, value, result>>
  /\ UNCHANGED fileVars

\* decode_variable_length_value applied to what the encoder returned
CallDecodeEncoded ==
  /\ cpc = "encoded"
  /\ call = "encode_variable_length_value"
  /\ result' = decode_variable_length_value(encoded.ret)
  /\ cpc' = "roundtrip"
  /\ UNCHANGED <<call, byte_list, value, encoded>>
  /\ UNCHANGED fileVars

CodecNext ==
  \/ CallMTrkEvent \/ CallSystemEvent \/ CallMetaEvent \/ CallMidiEvent
  \/ CallDecodeVlv
  \/ CallToBytes \/ CallEncodeVlv \/ CallDecodeEncoded

SpecCodec == CodecInit /\ [][CodecNext]_vars

\* =============================================================== claims
\* ---- claims about the program (checked under Spec)

\* C1: a file that decodes and is exported without mutation is written back
\* byte for byte: the concatenation of Chunk.to_bytes() of every chunk is
\* the input buffer.
FileRoundTrip ==
  (pc = "exported" /\ mutations = 0 /\ raised = None) => written = midi_data

RECURSIVE SumLengths(_)
SumLengths(mtrk_events) ==
  IF mtrk_events = <<>> THEN 0
  ELSE Head(mtrk_events).length + SumLengths(Tail(mtrk_events))

\* C4: Chunk decoding never returns a track chunk one of whose events ends
\* past offset 8 + length: the events of a decoded track chunk lie within
\* its declared body.
TrackChunkOverrunRaises ==
  mutations = 0 =>
    \A i \in DOMAIN chunks :
      chunks[i].chunk_type = "m_trk" =>
        SumLengths(chunks[i].mtrk_events) <= chunks[i].length

\* C5: after decoding and any caller mutations, the length field that
\* Chunk.to_bytes() writes equals the number of body bytes that follow the
\* 8-byte chunk header in the same output.
ChunkLengthRecomputed ==
  pc = "exported" =>
    \A i \in DOMAIN chunks :
      LET b == Chunk_to_bytes(chunks[i])
      IN  ~Raised(b) => bytes_to_uint32(Slice(b.ret, 4, 8)).ret = Len(b.ret) - 8

\* C6: export of a decoded, unmutated file completes without any to_bytes
\* raising.
EncodeNeverFails ==
  (pc = "exported" /\ mutations = 0) => raised = None

\* C10: when decoding a chunk fails, MidiFile decoding lets that error reach
\* the caller, and it differs from the error of a file that cannot be read.
DecodeErrorsPropagated ==
  (pc = "raised" /\ context # IoError) => (raised = context /\ raised # CouldNotOpen)

\* every decoded track event took at least one delta-time byte and one event
\* byte, and a system-exclusive event took its payload and two more bytes
EventsAdvance ==
  \A i \in DOMAIN chunks :
    chunks[i].chunk_type = "m_trk" =>
      \A j \in DOMAIN chunks[i].mtrk_events :
        LET e == chunks[i].mtrk_events[j]
        IN  /\ e.event.length >= 1
            /\ e.length - e.event.length >= 1
            /\ "payload" \in DOMAIN e.event
                 => e.event.length = Len(e.event.payload) + 2

\* an iteration of the chunk loop that appends a chunk moves file_pos
\* forward by at least 8
ChunkLoopAdvances ==
  (pc = "loop" /\ chunks' # chunks) => file_pos' >= file_pos + 8

DecodeEnded == pc \in {"decoded", "raised", "exported"}

\* C11: decoding a finite buffer ends, by returning or by raising: every
\* iteration of the chunk loop advances the file offset by at least 8 (so
\* at most file_pos / 8 chunks are ever decoded), and every decoded track
\* event advanced the offset in its chunk by at least 2.
DecodingTerminates ==
  /\ <>DecodeEnded
  /\ [][ChunkLoopAdvances]_vars
  /\ [](8 * Len(chunks) <= file_pos /\ EventsAdvance)

DecodingTerminatesWitness ==
  /\ pc = "decoded"
  /\ Len(chunks) >= 3
  /\ \E i \in DOMAIN chunks :
       chunks[i].chunk_type = "m_trk" /\ Len(chunks[i].mtrk_events) >= 2

\* ---- claims about the codecs (checked under SpecCodec)

\* C2: decoding what encode_variable_length_value returned for v gives
\* (v, number of bytes encoded).
VlvRoundTrip ==
  (call = "encode_variable_length_value" /\ cpc = "roundtrip") =>
    result = [value |-> value, length |-> Len(encoded.ret)]

\* the outcome the status byte s calls for
ExpectedFamily(s) ==
  IF s - (s % 16) \in {128, 144, 160, 176, 192, 208, 224} THEN "MidiEvent"
  ELSE IF s \in {240, 242, 243, 246, 247, 248, 250, 251, 252, 254} THEN "SystemEvent"
  ELSE IF s = 255 THEN "MetaEvent"
  ELSE "error"

NoSuchEvent == Raise("MidiException", "No such event")

\* C3: the status byte of an event decides exactly one outcome of MTrkEvent
\* decoding: a channel-voice, system or meta event is decoded by the decoder
\* of its own family (and a channel-voice or fixed-length system event with
\* its data bytes present is returned), and every other status byte raises
\* 'No such event'; no byte of a family is rejected as unknown.
DiscriminationComplete ==
  (call = "MTrkEvent" /\ cpc # "input" /\ Len(byte_list) >= 2 /\ byte_list[1] = 0) =>
    LET s == byte_list[2]
        family == ExpectedFamily(s)
    IN  /\ ~Raised(result) => result.event.cls = family
        /\ family = "error" <=> result = NoSuchEvent
        /\ (family = "MidiEvent" /\ Len(byte_list) >= 4) => ~Raised(result)
        /\ (family = "SystemEvent" /\ s \notin {240, 247}) => ~Raised(result)

DiscriminationWitness ==
  /\ call = "MTrkEvent" /\ cpc = "called"
  /\ Len(byte_list) >= 2 /\ byte_list[1] = 0 /\ byte_list[2] = 255
  /\ ~Raised(result)
  /\ result.event.cls = "MetaEvent"

\* C7: to_bytes() of a SystemEvent decoded from a buffer that holds all of
\* its `length` bytes is exactly those first `length` bytes.
SystemEventRoundTrip ==
  (call = "SystemEvent" /\ cpc = "encoded" /\ result.length <= Len(byte_list)) =>
    encoded = Ret(Slice(byte_list, 0, result.length))

\* C8: a MetaEvent whose declared payload length exceeds the bytes that
\* remain after the length field is not decoded: MetaEvent raises, and a
\* returned event never extends past the end of the buffer.
TruncatedMetaPayloadRaises ==
  (call = "MetaEvent" /\ cpc = "called" /\ Len(byte_list) >= 2) =>
    LET declared == decode_variable_length_value(SliceFrom(byte_list, 2))
    IN  /\ (~Raised(declared) /\ Len(byte_list) - 2 - declared.length < declared.value)
             => Raised(result)
        /\ ~Raised(result) => result.length <= Len(byte_list)

AllHighBit(bs) == \A i \in DOMAIN bs : bs[i] >= 128
NoTerminator(bs) == \A i \in DOMAIN bs : bs[i] # 247

\* C9: a variable-length scan that meets only bytes with the high bit set,
\* and a system-exclusive scan that meets no 0xF7, raise at the end of the
\* buffer and return nothing; a scan that returns has consumed only bytes
\* inside the buffer.
ScansFailAtEndOfBuffer ==
  cpc = "called" =>
    /\ (call \in {"decode_variable_length_value", "MTrkEvent"} /\ AllHighBit(byte_list))
         => (Raised(result) /\ result.exc = "IndexError")
    /\ (call = "SystemEvent" /\ byte_list # <<>> /\ byte_list[1] \in {240, 247}
          /\ NoTerminator(Tail(byte_list)))
         => (Raised(result) /\ result.exc = "IndexError")
    /\ (call = "MTrkEvent" /\ Len(byte_list) >= 2 /\ byte_list[1] = 0
          /\ byte_list[2] \in {240, 247} /\ NoTerminator(SubSeq(byte_list, 3, Len(byte_list))))
         => (Raised(result) /\ result.exc = "IndexError")
    /\ (call = "decode_variable_length_value" /\ ~Raised(result))
         => result.length <= Len(byte_list)
    /\ (call = "SystemEvent" /\ ~Raised(result) /\ result.event_type \in {240, 247})
         => result.length <= Len(byte_list)

ScansWitness ==
  /\ cpc = "called"
  /\ call = "decode_variable_length_value"
  /\ Len(byte_list) >= 2 /\ AllHighBit(byte_list)
  /\ Raised(result)

\* the length the MIDI format gives a channel voice message of status byte s
ChannelVoiceLength(s) == IF s \div 16 \in {12, 13} THEN 2 ELSE 3

\* C12: a MidiEvent constructed on a status byte s in 0x80..0xEF followed by
\* two data bytes has event_type = s & 0xF0, channel_number = s & 0x0F,
\* length 2 for ProgramChange and ChannelPressure and 3 for the other types,
\* and its to_bytes() returns the first length bytes of the input.
ChannelVoiceRoundTrip ==
  (/\ call = "MidiEvent"
   /\ cpc \in {"called", "encoded"}
   /\ Len(byte_list) >= 3
   /\ byte_list[1] \in 128..239)
  => /\ ~Raised(result)
     /\ result.event_type = 16 * (byte_list[1] \div 16)
     /\ result.channel_number = byte_list[1] % 16
     /\ result.channel_number \in 0..15
     /\ result.length = ChannelVoiceLength(byte_list[1])
     /\ cpc = "encoded"
          => encoded = Ret(SubSeq(byte_list, 1, result.length))

ChannelVoiceWitness ==
  /\ call = "MidiEvent"
  /\ cpc = "encoded"
  /\ byte_list = <<197, 64, 255>>
  /\ result.channel_number = 5
  /\ encoded = Ret(<<197, 64>>)

====
